---- MODULE Spec2Model ----
(***************************************************************************)
(* CheeseCameraDevice (libcheese/cheese-camera-device.c): the device       *)
(* handle, its capability prober, the format table derivation and the      *)
(* query accessors, as a state machine.                                    *)
(*                                                                         *)
(* gint is a 32-bit two's complement integer.  TLC's own integers are      *)
(* 32-bit and raise an error on overflow, so the C arithmetic is written   *)
(* out with explicit case splits that never leave the 32-bit range.        *)
(***************************************************************************)
EXTENDS Integers, Sequences, FiniteSets, TLC

(* ---------------------------------------------------------------------- *)
(* Bounds of the model                                                     *)
(* ---------------------------------------------------------------------- *)

\* Longest capability set (number of GstStructures) the source pad offers.
MaxStructures == 2

(* ---------------------------------------------------------------------- *)
(* gint arithmetic                                                         *)
(* ---------------------------------------------------------------------- *)

TwoPow30 == 1024 * 1024 * 1024
I32Max == (TwoPow30 - 1) + TwoPow30
I32Min == (-I32Max) - 1

\* a + b of two gint, reduced modulo 2^32 into [I32Min, I32Max].
Add32(a, b) ==
  IF a > 0 /\ b > 0 /\ a > I32Max - b
  THEN ((a - I32Max) - 1) + ((b - I32Max) - 1)
  ELSE IF a < 0 /\ b < 0 /\ a < I32Min - b
       THEN ((a + I32Max) + 1) + ((b + I32Max) + 1)
       ELSE a + b

\* whether a + b leaves the gint range
AddOverflows(a, b) ==
  \/ a > 0 /\ b > 0 /\ a > I32Max - b
  \/ a < 0 /\ b < 0 /\ a < I32Min - b

\* -a modulo 2^32
Neg32(a) == IF a = I32Min THEN I32Min ELSE -a

\* a - b modulo 2^32
Sub32(a, b) ==
  IF b = I32Min
  THEN (IF a >= 0 THEN (a - I32Max) - 1 ELSE (a + I32Max) + 1)
  ELSE Add32(a, -b)

\* whether a - b leaves the gint range
SubOverflows(a, b) ==
  IF b = I32Min THEN a >= 0 ELSE AddOverflows(a, -b)

\* a * 2 modulo 2^32
Dbl32(a) ==
  IF a >= TwoPow30 THEN (((a - TwoPow30) * 2) - I32Max) - 1
  ELSE IF a < -TwoPow30 THEN (((a + TwoPow30) * 2) + I32Max) + 1
  ELSE a * 2

\* whether a * 2 leaves the gint range
DblOverflows(a) == a >= TwoPow30 \/ a < -TwoPow30

\* a / 2 in C: the quotient truncated toward zero
Half32(a) ==
  IF a >= 0 THEN a \div 2
  ELSE IF a = I32Min THEN -(TwoPow30 \div 1)
  ELSE -((-a) \div 2)

TwoPow16 == 256 * 256

\* The least natural number whose square leaves the gint range: the product
\* of two naturals below it does not overflow.
SqrtI32 == 181 * 256 + 5

\* The two 16-bit halves <<high, low>> of the two's complement pattern of a.
Halves(a) == << (a \div TwoPow16) % TwoPow16, a % TwoPow16 >>

\* The gint whose two's complement pattern has the halves p = <<high, low>>.
FromHalves(p) ==
  IF p[1] >= TwoPow16 \div 2
  THEN ((((p[1] - TwoPow16 \div 2) * TwoPow16) + p[2]) - I32Max) - 1
  ELSE (p[1] * TwoPow16) + p[2]

\* The 32-bit product <<high, low>> of two 16-bit naturals, by 8-bit limbs.
Mul16(a, b) ==
  LET a1 == a \div 256
      a0 == a % 256
      b1 == b \div 256
      b0 == b % 256
      mid == (a1 * b0) + (a0 * b1)
      lo == (a0 * b0) + ((mid % 256) * 256)
      hi == (a1 * b1) + (mid \div 256) + (lo \div TwoPow16)
  IN << hi % TwoPow16, lo % TwoPow16 >>

\* a * b modulo 2^32
Mul32(a, b) ==
  IF 0 <= a /\ a < SqrtI32 /\ 0 <= b /\ b < SqrtI32 THEN a * b ELSE
  LET ua == Halves(a)
      ub == Halves(b)
      ll == Mul16(ua[2], ub[2])
      c1 == Mul16(ua[1], ub[2])
      c2 == Mul16(ua[2], ub[1])
  IN FromHalves(<< (ll[1] + c1[2] + c2[2]) % TwoPow16, ll[2] >>)

\* |a| as a natural number, for a /= I32Min
Abs(a) == IF a < 0 THEN -a ELSE a

\* whether the mathematical product a * b leaves the gint range
MulOverflows(a, b) ==
  IF a = 0 \/ b = 0 THEN FALSE
  ELSE IF a = I32Min THEN b /= 1
  ELSE IF b = I32Min THEN a /= 1
  ELSE IF (a > 0) = (b > 0)
       THEN Abs(b) > I32Max \div Abs(a)
       ELSE \* negative product: |a||b| may reach 2^31
            /\ Abs(b) > I32Max \div Abs(a)
            /\ ~(Abs(a) * (I32Max \div Abs(a)) = I32Max - (Abs(a) - 1)
                 /\ Abs(b) = (I32Max \div Abs(a)) + 1)

(* ---------------------------------------------------------------------- *)
(* Errors (enum CheeseCameraDeviceError) and GError values                 *)
(* ---------------------------------------------------------------------- *)

CHEESE_CAMERA_DEVICE_ERROR_NOT_SUPPORTED == "NOT_SUPPORTED"
CHEESE_CAMERA_DEVICE_ERROR_UNSUPPORTED_CAPS == "UNSUPPORTED_CAPS"
CHEESE_CAMERA_DEVICE_ERROR_FAILED_INITIALIZATION == "FAILED_INITIALIZATION"

\* A NULL GError pointer.
NoError == [code |-> "NULL", message |-> <<>>]

\* g_set_error / g_set_error_literal: the message is the format text followed
\* by its arguments.
GError(code, message) == [code |-> code, message |-> message]

\* g_error_copy: a new GError with the same code and message.
g_error_copy(err) == [code |-> err.code, message |-> err.message]

(* ---------------------------------------------------------------------- *)
(* Capability sets (GstCaps): a sequence of structures, each a media type   *)
(* name with the fields framerate, width and height.  A field value is a   *)
(* fixed integer, an inclusive integer range, a two-element list, or is     *)
(* absent from the structure.                                               *)
(* ---------------------------------------------------------------------- *)

IntValue(v) == [type |-> "int", min |-> v, max |-> v]
RangeValue(lo, hi) == [type |-> "int_range", min |-> lo, max |-> hi]
ListValue(a, b) == [type |-> "list", min |-> a, max |-> b]
Absent == [type |-> "absent", min |-> 0, max |-> 0]
\* The result of intersecting two values that have nothing in common.
EmptyValue == [type |-> "empty", min |-> 0, max |-> 0]

Structure(name, framerate, width, height) ==
  [name |-> name, framerate |-> framerate, width |-> width, height |-> height]

\* The integers a value admits that lie in lo..hi, for a list value.
ListMembers(v, lo, hi) == {e \in {v.min, v.max} : lo <= e /\ e <= hi}

\* A value from a set of at most two integers.
FromMembers(m) ==
  IF m = {} THEN EmptyValue
  ELSE IF Cardinality(m) = 1 THEN IntValue(CHOOSE e \in m : TRUE)
  ELSE ListValue(CHOOSE e \in m : \A o \in m : e <= o,
                 CHOOSE e \in m : \A o \in m : e >= o)

\* gst_value_intersect on one field of two structures; a field present in
\* only one of them is copied (gst_structure_intersect).
ValueIntersect(a, b) ==
  IF a.type = "absent" THEN b
  ELSE IF b.type = "absent" THEN a
  ELSE IF a.type = "list" /\ b.type = "list"
       THEN FromMembers({a.min, a.max} \cap {b.min, b.max})
  ELSE IF a.type = "list" THEN FromMembers(ListMembers(a, b.min, b.max))
  ELSE IF b.type = "list" THEN FromMembers(ListMembers(b, a.min, a.max))
  ELSE LET lo == IF a.min >= b.min THEN a.min ELSE b.min
           hi == IF a.max <= b.max THEN a.max ELSE b.max
       IN IF lo > hi THEN EmptyValue
          ELSE IF lo = hi THEN IntValue(lo)
          ELSE RangeValue(lo, hi)

\* gst_structure_intersect: the structure both describe; the flag says
\* whether there is one.
StructureIntersect(s1, s2) ==
  LET f == ValueIntersect(s1.framerate, s2.framerate)
      w == ValueIntersect(s1.width, s2.width)
      h == ValueIntersect(s1.height, s2.height)
  IN [ok |-> /\ s1.name = s2.name
             /\ f.type /= "empty" /\ w.type /= "empty" /\ h.type /= "empty",
      s |-> Structure(s1.name, f, w, h)]

\* One diagonal of gst_caps_intersect's zig-zag walk, from (j, k) down-left.
RECURSIVE IntersectDiagonal(_, _, _, _, _)
IntersectDiagonal(caps1, caps2, j, k, acc) ==
  IF k > Len(caps2) THEN acc
  ELSE LET i == StructureIntersect(caps1[j], caps2[k])
           acc2 == IF i.ok THEN Append(acc, i.s) ELSE acc
       IN IF j = 1 THEN acc2
          ELSE IntersectDiagonal(caps1, caps2, j - 1, k + 1, acc2)

RECURSIVE IntersectFrom(_, _, _, _)
IntersectFrom(caps1, caps2, i, acc) ==
  IF i > Len(caps1) + Len(caps2) - 1 THEN acc
  ELSE LET j == IF i <= Len(caps1) THEN i ELSE Len(caps1)
           k == (i - j) + 1
       IN IntersectFrom(caps1, caps2, i + 1,
                        IntersectDiagonal(caps1, caps2, j, k, acc))

\* gst_caps_intersect: the pairwise structure intersections, in the order of
\* the zig-zag walk over caps1 x caps2.
gst_caps_intersect(caps1, caps2) ==
  IF caps1 = <<>> \/ caps2 = <<>> THEN <<>>
  ELSE IntersectFrom(caps1, caps2, 1, <<>>)

gst_caps_is_empty(caps) == caps = <<>>

(* ---------------------------------------------------------------------- *)
(* Policy constants                                                        *)
(* ---------------------------------------------------------------------- *)

supported_formats == << "video/x-raw-rgb", "video/x-raw-yuv" >>

CHEESE_MAXIMUM_RATE == 30

(* ---------------------------------------------------------------------- *)
(* cheese_camera_device_filter_caps                                        *)
(* ---------------------------------------------------------------------- *)

\* The filter: one structure per supported format, framerate in
\* [0/1, CHEESE_MAXIMUM_RATE/1], no width or height field.
FilterCaps(formats) ==
  [i \in 1..Len(formats) |->
     Structure(formats[i], RangeValue(0, CHEESE_MAXIMUM_RATE), Absent, Absent)]

cheese_camera_device_filter_caps(caps, formats) ==
  gst_caps_intersect(caps, FilterCaps(formats))

(* ---------------------------------------------------------------------- *)
(* Format table                                                            *)
(* ---------------------------------------------------------------------- *)

CheeseVideoFormat(width, height) == [width |-> width, height |-> height]

\* The format fields of a result that carries no format.
NoFormat == CheeseVideoFormat(0, 0)

\* add_format without the search for an equal entry.
add_format_NoSearch(formats, format) == Append(formats, format)

\* cheese_camera_device_add_format: append unless an entry with the same
\* width and height is already in the list.
cheese_camera_device_add_format(formats, format) ==
  IF \E i \in 1..Len(formats) :
       formats[i].width = format.width /\ formats[i].height = format.height
  THEN formats
  ELSE Append(formats, format)

\* free_format_list
free_format_list(formats) == <<>>

\* What signed overflow (undefined in C) does in a build: the two's
\* complement result, or a trap that ends the process (-ftrapv).
SignedOverflow == {"wrap", "trap"}

\* gst_structure_get_int: the field's value when it holds an int; otherwise
\* the destination keeps the 0 that g_new0 put there.
StructureGetInt(v) == IF v.type = "int" THEN v.min ELSE 0

\* gst_value_get_int_range_min / _max: 0 (after a critical warning) when the
\* value is not an int range.
RangeMin(v) == IF v.type = "int_range" THEN v.min ELSE 0
RangeMax(v) == IF v.type = "int_range" THEN v.max ELSE 0

\* TLC evaluates an operator's arguments only when they are used, so a list
\* handed down a recursion would pile up unevaluated.  Evaluated(v) is TRUE
\* and makes TLC evaluate v on the spot; it says nothing about the program.
Evaluated(v) == v = v

\* The doubling loop (lines 301-312) from (cur_width, cur_height).  The
\* loop does not end once both are 0 inside the bounds: "hang".
RECURSIVE DoublingSweep(_, _, _, _, _, _)
DoublingSweep(formats, cur_width, cur_height, max_width, max_height, ub) ==
  IF ~(cur_width <= max_width /\ cur_height <= max_height)
  THEN [formats |-> formats, outcome |-> "done"]
  ELSE LET added == cheese_camera_device_add_format(
                      formats, CheeseVideoFormat(cur_width, cur_height))
       IN IF Evaluated(added) /\ cur_width = 0 /\ cur_height = 0
          THEN [formats |-> added, outcome |-> "hang"]
          ELSE IF ub = "trap" /\ (DblOverflows(cur_width) \/ DblOverflows(cur_height))
          THEN [formats |-> added, outcome |-> "trap"]
          ELSE DoublingSweep(added, Dbl32(cur_width), Dbl32(cur_height),
                             max_width, max_height, ub)

\* The halving loop (lines 316-327) from (cur_width, cur_height).
RECURSIVE HalvingSweep(_, _, _, _, _)
HalvingSweep(formats, cur_width, cur_height, min_width, min_height) ==
  IF ~(cur_width > min_width /\ cur_height > min_height)
  THEN [formats |-> formats, outcome |-> "done"]
  ELSE LET added == cheese_camera_device_add_format(
                      formats, CheeseVideoFormat(cur_width, cur_height))
       IN IF Evaluated(added) /\ cur_width = 0 /\ cur_height = 0
          THEN [formats |-> added, outcome |-> "hang"]
          ELSE HalvingSweep(added, Half32(cur_width), Half32(cur_height),
                            min_width, min_height)

\* The loop body of cheese_camera_device_update_format_table for one
\* structure (lines 271-332).
FormatsOfStructure(formats, structure, ub) ==
  IF structure.width.type = "int"
  THEN [formats |-> cheese_camera_device_add_format(
                      formats,
                      CheeseVideoFormat(StructureGetInt(structure.width),
                                        StructureGetInt(structure.height))),
        outcome |-> "done"]
  ELSE IF structure.width.type = "int_range"
  THEN LET min_width == RangeMin(structure.width)
           max_width == RangeMax(structure.width)
           min_height == RangeMin(structure.height)
           max_height == RangeMax(structure.height)
           up == DoublingSweep(formats, min_width, min_height,
                               max_width, max_height, ub)
       IN IF up.outcome /= "done" THEN up
          ELSE HalvingSweep(up.formats, max_width, max_height,
                            min_width, min_height)
  ELSE \* g_critical: the structure is skipped
       [formats |-> formats, outcome |-> "done"]

RECURSIVE FormatsFrom(_, _, _, _)
FormatsFrom(formats, caps, i, ub) ==
  IF i > Len(caps) THEN [formats |-> formats, outcome |-> "done"]
  ELSE LET one == FormatsOfStructure(formats, caps[i], ub)
       IN IF one.outcome /= "done" THEN one
          ELSE FormatsFrom(one.formats, caps, i + 1, ub)

\* cheese_camera_device_update_format_table: the list is cleared and built
\* anew from priv->caps.  outcome: "done", or "hang" / "trap" when the
\* function does not return.
cheese_camera_device_update_format_table(formats, caps, ub) ==
  FormatsFrom(free_format_list(formats), caps, 1, ub)

(* ---------------------------------------------------------------------- *)
(* The capability prober                                                   *)
(* ---------------------------------------------------------------------- *)

\* gst_parse_launch: a pipeline, NULL with an error, or a pipeline together
\* with an error.
ParseResults == {"pipeline", "error", "pipeline_and_error"}

\* GstStateChangeReturn of gst_element_get_state after the 10 second wait;
\* ASYNC is the wait running out.
StateChangeReturns ==
  {"GST_STATE_CHANGE_FAILURE", "GST_STATE_CHANGE_SUCCESS",
   "GST_STATE_CHANGE_ASYNC", "GST_STATE_CHANGE_NO_PREROLL"}

\* The throwaway pipeline: obj is "none" (never created), "live" (a
\* reference is held) or "freed"; set_null says whether it was set to
\* GST_STATE_NULL after the probe.
NoPipeline == [obj |-> "none", state |-> "none", set_null |-> FALSE]

\* Lines 380-381: the format table is derived from the filtered caps, which
\* are on the handle by then (line 379).  derived counts the calls of
\* cheese_camera_device_update_format_table.
ProbeDerive(priv, allowed, table) ==
  [caps |-> allowed, formats |-> table.formats,
   construct_error |-> priv.construct_error, derived |-> 1,
   outcome |-> table.outcome]

\* ProbeFiltered without the test of line 380: the table is derived even
\* from empty caps and no error is set.
ProbeFiltered_NoEmptyTest(priv, allowed, ub) ==
  ProbeDerive(priv, allowed,
    cheese_camera_device_update_format_table(priv.formats, allowed, ub))

\* Lines 379-388: the filtered caps are stored; if they are not empty the
\* format table is derived, otherwise the construction error is set.
ProbeFiltered(priv, allowed, ub) ==
  IF ~gst_caps_is_empty(allowed)
  THEN ProbeDerive(priv, allowed,
         cheese_camera_device_update_format_table(priv.formats, allowed, ub))
  ELSE [caps |-> allowed, formats |-> priv.formats,
        construct_error |->
          GError(CHEESE_CAMERA_DEVICE_ERROR_UNSUPPORTED_CAPS,
                 << "Device capabilities not supported" >>),
        derived |-> 0, outcome |-> "done"]

\* Lines 368-393: the pipeline is ready and the bus holds no error.
ProbeReady(priv, offered, ub) ==
  ProbeFiltered(priv,
                cheese_camera_device_filter_caps(offered, supported_formats), ub)

\* Lines 394-419: the state change did not succeed or the bus holds an
\* error; only an error message on the bus sets the construction error.
ProbeNotReady(priv, msg) ==
  [caps |-> priv.caps, formats |-> priv.formats,
   construct_error |->
     IF msg
     THEN GError(CHEESE_CAMERA_DEVICE_ERROR_FAILED_INITIALIZATION,
                 << "Failed to initialize device %s for capability probing",
                    priv.device_node >>)
     ELSE priv.construct_error,
   derived |-> 0, outcome |-> "done"]

\* Lines 420-421: the pipeline is set to GST_STATE_NULL and released, when
\* control gets there.
ProbeTeardown(r) ==
  [caps |-> r.caps, formats |-> r.formats,
   construct_error |-> r.construct_error,
   pipeline |->
     IF r.outcome = "done"
     THEN [obj |-> "freed", state |-> "GST_STATE_NULL", set_null |-> TRUE]
     ELSE [obj |-> "live", state |-> "GST_STATE_READY", set_null |-> FALSE],
   derived |-> r.derived, outcome |-> r.outcome]

\* cheese_camera_device_get_caps.  run is what the media layer answers:
\* parse (gst_parse_launch), ret (gst_element_get_state), msg (whether
\* gst_bus_pop_filtered returned an error message) and offered (the caps of
\* the source pad).  Without a pipeline and a NULL error (line 357) nothing
\* is done: a pipeline that came with an error is neither stopped nor freed.
cheese_camera_device_get_caps(priv, run, ub) ==
  IF run.parse = "pipeline"
  THEN ProbeTeardown(IF ~run.msg /\ run.ret = "GST_STATE_CHANGE_SUCCESS"
                     THEN ProbeReady(priv, run.offered, ub)
                     ELSE ProbeNotReady(priv, run.msg))
  ELSE [caps |-> priv.caps, formats |-> priv.formats,
        construct_error |-> priv.construct_error,
        pipeline |->
          IF run.parse = "pipeline_and_error"
          THEN [obj |-> "live", state |-> "GST_STATE_NULL", set_null |-> FALSE]
          ELSE NoPipeline,
        derived |-> 0, outcome |-> "done"]

(* ---------------------------------------------------------------------- *)
(* Construction and initialization                                         *)
(* ---------------------------------------------------------------------- *)

\* The range of the v4l-api-version property (g_param_spec_uint).
V4L_API_VERSION_MIN == 1
V4L_API_VERSION_MAX == 2

\* Setting the construct property v4l-api-version: GObject validates the
\* value against the property's range and, outside it, warns and does not
\* call set_property, so the field keeps its current value.
SetV4lApiVersion(current, value) ==
  IF V4L_API_VERSION_MIN <= value /\ value <= V4L_API_VERSION_MAX
  THEN value
  ELSE current

\* Line 436: the capture source element for an API version.
SourceElement(v4lapi_version) ==
  IF v4lapi_version = 2 THEN "v4l2src" ELSE "v4lsrc"

\* initable_init that looks at the stored error before the cancellable.
initable_init_ErrorFirst(construct_error, cancellable, error_loc) ==
  IF construct_error /= NoError
  THEN [ok |-> FALSE,
        error |-> IF error_loc THEN g_error_copy(construct_error) ELSE NoError,
        construct_error |-> construct_error]
  ELSE IF cancellable
  THEN [ok |-> FALSE,
        error |-> IF error_loc
                  THEN GError(CHEESE_CAMERA_DEVICE_ERROR_NOT_SUPPORTED,
                              << "Cancellable initialization not supported" >>)
                  ELSE NoError,
        construct_error |-> construct_error]
  ELSE [ok |-> TRUE, error |-> NoError, construct_error |-> construct_error]

\* initable_init that hands the stored error itself to the caller
\* (g_propagate_error) instead of a copy, leaving the handle without it.
initable_init_MovesError(construct_error, cancellable, error_loc) ==
  IF cancellable
  THEN [ok |-> FALSE,
        error |-> IF error_loc
                  THEN GError(CHEESE_CAMERA_DEVICE_ERROR_NOT_SUPPORTED,
                              << "Cancellable initialization not supported" >>)
                  ELSE NoError,
        construct_error |-> construct_error]
  ELSE IF construct_error /= NoError
  THEN [ok |-> FALSE,
        error |-> IF error_loc THEN construct_error ELSE NoError,
        construct_error |-> NoError]
  ELSE [ok |-> TRUE, error |-> NoError, construct_error |-> construct_error]

\* cheese_camera_device_initable_init.  cancellable: whether a GCancellable
\* was passed; error_loc: whether the caller passed a place for the error.
\* construct_error in the result is priv->construct_error after the call:
\* the caller gets a copy, the handle keeps its own.
cheese_camera_device_initable_init(construct_error, cancellable, error_loc) ==
  IF cancellable
  THEN [ok |-> FALSE,
        error |-> IF error_loc
                  THEN GError(CHEESE_CAMERA_DEVICE_ERROR_NOT_SUPPORTED,
                              << "Cancellable initialization not supported" >>)
                  ELSE NoError,
        construct_error |-> construct_error]
  ELSE IF construct_error /= NoError
  THEN [ok |-> FALSE,
        error |-> IF error_loc THEN g_error_copy(construct_error) ELSE NoError,
        construct_error |-> construct_error]
  ELSE [ok |-> TRUE, error |-> NoError, construct_error |-> construct_error]

(* ---------------------------------------------------------------------- *)
(* Queries                                                                 *)
(* ---------------------------------------------------------------------- *)

\* The area as compare_formats computes it: width * height in gint.
Area32(f) == Mul32(f.width, f.height)

\* compare_formats: d->width * d->height - c->width * c->height, in gint.
compare_formats(c, d) == Sub32(Area32(d), Area32(c))

\* Whether compare_formats(c, d) overflows a gint on the way.
CompareOverflows(c, d) ==
  \/ MulOverflows(d.width, d.height)
  \/ MulOverflows(c.width, c.height)
  \/ SubOverflows(Area32(d), Area32(c))

\* g_list_sort_merge: the head of l1 is taken while the comparison is <= 0.
\* trapped: whether a comparison on the way overflowed.
RECURSIVE g_list_sort_merge(_, _)
g_list_sort_merge(l1, l2) ==
  IF l1 = <<>> THEN [list |-> l2, trapped |-> FALSE]
  ELSE IF l2 = <<>> THEN [list |-> l1, trapped |-> FALSE]
  ELSE LET cmp == compare_formats(l1[1], l2[1])
           ovf == CompareOverflows(l1[1], l2[1])
           rest == IF cmp <= 0 THEN g_list_sort_merge(Tail(l1), l2)
                   ELSE g_list_sort_merge(l1, Tail(l2))
       IN [list |-> << (IF cmp <= 0 THEN l1[1] ELSE l2[1]) >> \o rest.list,
           trapped |-> ovf \/ rest.trapped]

\* g_list_sort: GLib's merge sort; the list is cut after its first
\* Len \div 2 elements and the sorted halves are merged.
RECURSIVE g_list_sort(_)
g_list_sort(list) ==
  IF Len(list) <= 1 THEN [list |-> list, trapped |-> FALSE]
  ELSE LET half == Len(list) \div 2
           s1 == g_list_sort(SubSeq(list, 1, half))
           s2 == g_list_sort(SubSeq(list, half + 1, Len(list)))
           m == g_list_sort_merge(s1.list, s2.list)
       IN [list |-> m.list, trapped |-> s1.trapped \/ s2.trapped \/ m.trapped]

\* cheese_camera_device_get_format_list: a sorted copy of priv->formats.
cheese_camera_device_get_format_list(formats) == g_list_sort(formats)

\* What reading through a NULL GList pointer (undefined in C) does: the
\* process ends with SIGSEGV, or the load yields whatever lies at the
\* address and the call goes on with it.
NullDereference == {"segv", "garbage"}

\* cheese_camera_device_get_best_format: a copy of the first element of the
\* sorted list.  null: the list is empty, so ->data reads through NULL.
BestOf(sorted) ==
  [null |-> sorted.list = <<>>,
   format |-> IF sorted.list = <<>> THEN NoFormat
              ELSE CheeseVideoFormat(sorted.list[1].width, sorted.list[1].height),
   trapped |-> sorted.trapped]

cheese_camera_device_get_best_format(formats) ==
  BestOf(cheese_camera_device_get_format_list(formats))

\* The caps asked of the device for one format: one structure per supported
\* format with the width and the height fixed and no frame rate.
DesiredCaps(formats, format) ==
  [i \in 1..Len(formats) |->
     Structure(formats[i], Absent, IntValue(format.width), IntValue(format.height))]

\* get_caps_for_format without the loop of lines 803-811: only the first
\* supported format is asked for.
get_caps_for_format_FirstOnly(caps, format) ==
  gst_caps_intersect(DesiredCaps(<< supported_formats[1] >>, format), caps)

\* cheese_camera_device_get_caps_for_format
cheese_camera_device_get_caps_for_format(caps, format) ==
  gst_caps_intersect(DesiredCaps(supported_formats, format), caps)

(* ---------------------------------------------------------------------- *)
(* What the media layer and the callers can supply                         *)
(* ---------------------------------------------------------------------- *)

Rgb == "video/x-raw-rgb"
Yuv == "video/x-raw-yuv"
Jpeg == "image/jpeg"

\* Structures a source pad may offer: fixed and ranged sizes, repeated and
\* overlapping ones, a media type and a frame rate outside the policy, sizes
\* whose area does not fit a gint, ranges that start at 0 or end at the gint
\* maximum, and width/height fields of differing or unexpected types.
OfferedStructures ==
  { Structure(Rgb, IntValue(30), IntValue(640), IntValue(480)),
    Structure(Yuv, RangeValue(15, 60), IntValue(640), IntValue(480)),
    Structure(Yuv, IntValue(30), IntValue(320), IntValue(240)),
    Structure(Jpeg, IntValue(30), IntValue(1280), IntValue(720)),
    Structure(Rgb, IntValue(60), IntValue(1920), IntValue(1080)),
    Structure(Rgb, IntValue(30), IntValue(65536), IntValue(65536)),
    Structure(Yuv, IntValue(30), IntValue(46341), IntValue(46341)),
    Structure(Yuv, IntValue(15), RangeValue(160, 640), RangeValue(120, 480)),
    Structure(Rgb, IntValue(30), RangeValue(320, 320), RangeValue(240, 240)),
    Structure(Rgb, IntValue(30), RangeValue(160, 700), RangeValue(120, 500)),
    Structure(Yuv, IntValue(30), RangeValue(0, 640), RangeValue(0, 480)),
    Structure(Rgb, IntValue(30), RangeValue(1, I32Max), RangeValue(1, I32Max)),
    Structure(Rgb, IntValue(30), IntValue(640), RangeValue(120, 480)),
    Structure(Yuv, IntValue(30), RangeValue(160, 640), IntValue(480)),
    Structure(Rgb, IntValue(30), ListValue(320, 640), ListValue(240, 480)) }

OfferedCaps == UNION { [1..n -> OfferedStructures] : n \in 0..MaxStructures }

\* Every answer the media layer can give to one probe.  ret, msg and
\* offered are "none" / FALSE / empty where the prober never asks for them.
ProbeRuns ==
  { [parse |-> p, ret |-> "none", msg |-> FALSE, offered |-> <<>>] :
      p \in ParseResults \ {"pipeline"} }
  \cup
  { [parse |-> "pipeline", ret |-> r, msg |-> m, offered |-> <<>>] :
      <<r, m>> \in (StateChangeReturns \X BOOLEAN)
                     \ { <<"GST_STATE_CHANGE_SUCCESS", FALSE>> } }
  \cup
  { [parse |-> "pipeline", ret |-> "GST_STATE_CHANGE_SUCCESS", msg |-> FALSE,
     offered |-> c] : c \in OfferedCaps }

\* The device node the handle is made for.
DeviceNodes == {"/dev/video0"}

\* guint values a caller may pass as v4l_api_version.
ApiVersions == 0..3

\* Formats a stray load may come back with.
WildFormats == {CheeseVideoFormat(0, 0), CheeseVideoFormat(-1, 480)}

\* Formats a caller may pass to cheese_camera_device_get_caps_for_format
\* besides those of the handle's own list.
OtherFormats == {CheeseVideoFormat(320, 240), CheeseVideoFormat(641, 480)}

\* Most calls on one handle, after its construction, that the model follows.
MaxCalls == 2

(* ---------------------------------------------------------------------- *)
(* State                                                                   *)
(* ---------------------------------------------------------------------- *)

VARIABLES
  pc,                \* "new", "constructed", "hung" or "aborted"; "probing"
                     \* and "derived" are the prober at line 381 and after it
  requested_version, \* the v4l_api_version the caller passed
  v4lapi_version,    \* priv->v4lapi_version
  device_node,       \* priv->device_node
  src,               \* priv->src
  caps,              \* priv->caps
  formats,           \* priv->formats
  construct_error,   \* priv->construct_error
  pipeline,          \* the prober's pipeline
  probes,            \* how many times the prober has run
  derivations,       \* how many times the format table was derived
  probe,             \* what the media layer answered to the probe
  calls,             \* how many calls were made on the constructed handle
  result             \* what the last call on the handle returned

vars == << pc, requested_version, v4lapi_version, device_node, src, caps,
           formats, construct_error, pipeline, probes, derivations, probe,
           calls, result >>

priv_vars == << v4lapi_version, device_node, src, caps, formats, construct_error >>

\* format and caps are what cheese_camera_device_get_best_format and
\* cheese_camera_device_get_caps_for_format returned (asked is the format
\* the latter was called with).
NoResult ==
  [op |-> "none", cancellable |-> FALSE, error_loc |-> FALSE,
   ok |-> FALSE, error |-> NoError, list |-> <<>>,
   format |-> NoFormat, asked |-> NoFormat, caps |-> <<>>]

NoProbe == [parse |-> "none", ret |-> "none", msg |-> FALSE, offered |-> <<>>]

\* cheese_camera_device_init: the instance before its properties are set.
Init ==
  /\ pc = "new"
  /\ requested_version = 0
  /\ v4lapi_version = 0
  /\ device_node = "NULL"
  /\ src = "NULL"
  /\ caps = <<>>
  /\ formats = <<>>
  /\ construct_error = NoError
  /\ pipeline = NoPipeline
  /\ probes = 0
  /\ derivations = 0
  /\ probe = NoProbe
  /\ calls = 0
  /\ result = NoResult

\* The handle after cheese_camera_device_constructed: v is the API version
\* on the handle and p what the prober left.
Constructed(node, version, v, run, p) ==
  /\ requested_version' = version
  /\ v4lapi_version' = v
  /\ device_node' = node
  /\ src' = SourceElement(v)
  /\ caps' = p.caps
  /\ formats' = p.formats
  /\ construct_error' = p.construct_error
  /\ pipeline' = p.pipeline
  /\ probes' = probes + 1
  /\ derivations' = derivations + p.derived
  /\ probe' = run
  /\ pc' = CASE p.outcome = "done" -> "constructed"
             [] p.outcome = "hang" -> "hung"
             [] OTHER -> "aborted"

\* g_object_new: the construct properties are set, then
\* cheese_camera_device_constructed picks the source element and probes.
Construct ==
  /\ pc = "new"
  /\ \E node \in DeviceNodes, version \in ApiVersions,
        run \in ProbeRuns, ub \in SignedOverflow :
       Constructed(node, version, SetV4lApiVersion(v4lapi_version, version), run,
                   cheese_camera_device_get_caps(
                     [device_node |-> node, caps |-> caps, formats |-> formats,
                      construct_error |-> construct_error], run, ub))
  /\ UNCHANGED << calls, result >>

\* g_initable_init returned r.
Finalized(cancellable, error_loc, r) ==
  /\ result' = [NoResult EXCEPT !.op = "init",
                                !.cancellable = cancellable,
                                !.error_loc = error_loc,
                                !.ok = r.ok, !.error = r.error]
  /\ construct_error' = r.construct_error

\* g_initable_init on the constructed handle.
FinalizeInit ==
  /\ pc = "constructed"
  /\ calls < MaxCalls
  /\ \E cancellable \in BOOLEAN, error_loc \in BOOLEAN :
       Finalized(cancellable, error_loc,
                 cheese_camera_device_initable_init(
                   construct_error, cancellable, error_loc))
  /\ calls' = calls + 1
  /\ UNCHANGED << pc, requested_version, v4lapi_version, device_node, src,
                  caps, formats, pipeline, probes, derivations, probe >>

\* cheese_camera_device_get_format_list returned r.  Where a comparison
\* overflowed, the process may instead have ended in a trap on the way.
GotFormats(r) ==
  \E ub \in (IF r.trapped THEN SignedOverflow ELSE {"wrap"}) :
    IF ub = "trap"
    THEN /\ pc' = "aborted"
         /\ result' = [NoResult EXCEPT !.op = "get_format_list"]
    ELSE /\ pc' = pc
         /\ result' = [NoResult EXCEPT !.op = "get_format_list",
                                       !.ok = TRUE, !.list = r.list]

\* cheese_camera_device_get_format_list on the constructed handle.
GetFormats ==
  /\ pc = "constructed"
  /\ calls < MaxCalls
  /\ GotFormats(cheese_camera_device_get_format_list(formats))
  /\ calls' = calls + 1
  /\ UNCHANGED << requested_version, priv_vars, pipeline, probes, derivations,
                  probe >>

\* cheese_camera_device_get_best_format returned r, or the process ended
\* on the way: in a trap of the sort, or reading through NULL.
GotBestFormat(r) ==
  \E ub \in (IF r.trapped THEN SignedOverflow ELSE {"wrap"}),
     nd \in (IF r.null THEN NullDereference ELSE {"garbage"}),
     wild \in (IF r.null THEN WildFormats ELSE {r.format}) :
    IF ub = "trap" \/ (r.null /\ nd = "segv")
    THEN /\ pc' = "aborted"
         /\ result' = [NoResult EXCEPT !.op = "get_best_format"]
    ELSE /\ pc' = pc
         /\ result' = [NoResult EXCEPT !.op = "get_best_format",
                                       !.ok = TRUE, !.format = wild]

\* cheese_camera_device_get_best_format on the constructed handle.
GetBestFormat ==
  /\ pc = "constructed"
  /\ calls < MaxCalls
  /\ GotBestFormat(cheese_camera_device_get_best_format(formats))
  /\ calls' = calls + 1
  /\ UNCHANGED << requested_version, priv_vars, pipeline, probes, derivations,
                  probe >>

\* cheese_camera_device_get_caps_for_format on the constructed handle, for
\* a format of its list or another one.
GetCapsForFormat ==
  /\ pc = "constructed"
  /\ calls < MaxCalls
  /\ \E format \in {formats[i] : i \in 1..Len(formats)} \cup OtherFormats :
       result' = [NoResult EXCEPT
                    !.op = "get_caps_for_format", !.ok = TRUE,
                    !.asked = format,
                    !.caps = cheese_camera_device_get_caps_for_format(caps, format)]
  /\ calls' = calls + 1
  /\ UNCHANGED << pc, requested_version, priv_vars, pipeline, probes,
                  derivations, probe >>

Next ==
  \/ Construct
  \/ FinalizeInit
  \/ GetFormats
  \/ GetBestFormat
  \/ GetCapsForFormat

Spec == Init /\ [][Next]_vars

(* ---------------------------------------------------------------------- *)
(* The format table derivation on its own: the prober stands at line 381    *)
(* with one ranged structure in priv->caps, and                             *)
(* cheese_camera_device_update_format_table runs.                           *)
(* ---------------------------------------------------------------------- *)

\* Bounds a ranged width or height may have: 0, 1, usual sizes, sizes that
\* are no power-of-two multiple of one another, and sizes next to the gint
\* maximum.
RangeSides ==
  {0, 1, 120, 160, 240, 320, 480, 500, 640, 700, TwoPow30, I32Max - 1, I32Max}

\* The ranges [min, max] with 0 <= min <= max over RangeSides.
Ranges == {r \in RangeSides \X RangeSides : r[1] <= r[2]}

\* The filtered caps of a device that offers one ranged structure.
RangedCaps(w, h) ==
  << Structure(Rgb, IntValue(CHEESE_MAXIMUM_RATE),
               RangeValue(w[1], w[2]), RangeValue(h[1], h[2])) >>

\* The prober at line 381: the pipeline is ready, the filtered caps are on
\* the handle and are not empty.
InitRange ==
  /\ pc = "probing"
  /\ requested_version = V4L_API_VERSION_MAX
  /\ v4lapi_version = V4L_API_VERSION_MAX
  /\ device_node \in DeviceNodes
  /\ src = SourceElement(V4L_API_VERSION_MAX)
  /\ \E w \in Ranges, h \in Ranges : caps = RangedCaps(w, h)
  /\ formats = <<>>
  /\ construct_error = NoError
  /\ pipeline = [obj |-> "live", state |-> "GST_STATE_READY", set_null |-> FALSE]
  /\ probes = 1
  /\ derivations = 0
  /\ probe = [parse |-> "pipeline", ret |-> "GST_STATE_CHANGE_SUCCESS",
              msg |-> FALSE, offered |-> caps]
  /\ calls = 0
  /\ result = NoResult

\* cheese_camera_device_update_format_table came to the end t.
Derived(t) ==
  /\ formats' = t.formats
  /\ pc' = CASE t.outcome = "done" -> "derived"
             [] t.outcome = "hang" -> "hung"
             [] OTHER -> "aborted"

\* cheese_camera_device_update_format_table (line 381).
UpdateFormatTable ==
  /\ pc = "probing"
  /\ \E ub \in SignedOverflow :
       Derived(cheese_camera_device_update_format_table(formats, caps, ub))
  /\ derivations' = derivations + 1
  /\ UNCHANGED << requested_version, v4lapi_version, device_node, src, caps,
                  construct_error, pipeline, probes, probe, calls, result >>

NextRange == UpdateFormatTable

SpecRange == InitRange /\ [][NextRange]_vars

(* ---------------------------------------------------------------------- *)
(* Properties                                                              *)
(* ---------------------------------------------------------------------- *)

\* The caller passed an API version the property allows.
ValidVersion == requested_version \in {1, 2}

\* The last call was g_initable_init without a cancellable, on a handle made
\* with a valid API version.
InitWithoutCancel == ValidVersion /\ result.op = "init" /\ ~result.cancellable

\* The prober got a pipeline and no parse error, so it tried the state change.
PipelineStarted == ValidVersion /\ probe.parse = "pipeline"

\* The pipeline reached the ready state and the bus held no error.
PipelineReady ==
  /\ PipelineStarted
  /\ probe.ret = "GST_STATE_CHANGE_SUCCESS"
  /\ ~probe.msg

\* C1: if FinalizeInit without cancellation succeeds, the format list is
\* non-empty and every entry has positive width and height.
C1_SuccessImpliesFormats ==
  (InitWithoutCancel /\ result.ok) =>
    /\ formats /= <<>>
    /\ \A i \in 1..Len(formats) :
         formats[i].width > 0 /\ formats[i].height > 0

\* C2: when the transition to ready did not return success, or an error
\* message was on the bus, a failed-initialization construction error is
\* stored and the format list stays empty.
C2_NotReadyStoresFailedInit ==
  (pc = "constructed" /\ PipelineStarted /\ ~PipelineReady) =>
    /\ construct_error.code = CHEESE_CAMERA_DEVICE_ERROR_FAILED_INITIALIZATION
    /\ formats = <<>>

\* C3: whenever the prober has returned and a pipeline object was created,
\* the pipeline was set to the stopped state and released.
C3_PipelineReleased ==
  (ValidVersion /\ pc = "constructed" /\ pipeline.obj /= "none") =>
    pipeline.obj = "freed" /\ pipeline.set_null

\* The policy of the filter, stated on one offered structure: an allowed
\* media type and some frame rate within [0, 30].
AllowedByPolicy(s) ==
  /\ s.name \in {"video/x-raw-rgb", "video/x-raw-yuv"}
  /\ \/ s.framerate.type = "absent"
     \/ s.framerate.min <= 30 /\ s.framerate.max >= 0

\* The pipeline got ready and nothing the device offers passes the policy.
NothingAllowed ==
  /\ pc /= "new"
  /\ PipelineReady
  /\ \A i \in 1..Len(probe.offered) : ~AllowedByPolicy(probe.offered[i])

\* C4: when the pipeline is ready, the bus holds no error and the offered
\* caps have nothing in common with the policy filter, the prober stores an
\* unsupported-capabilities error, does not derive the format table and
\* leaves the format list empty.
C4_EmptyFilteredCaps ==
  NothingAllowed =>
    /\ pc /= "hung"
    /\ construct_error.code = CHEESE_CAMERA_DEVICE_ERROR_UNSUPPORTED_CAPS
    /\ derivations = 0
    /\ formats = <<>>
    /\ caps = <<>>

\* C4 witness: a device that offers structures, none of which passes.
C4_Witness ==
  /\ NothingAllowed
  /\ Len(probe.offered) = 2
  /\ construct_error.code = CHEESE_CAMERA_DEVICE_ERROR_UNSUPPORTED_CAPS

\* C5: when gst_parse_launch returns no pipeline or reports an error, a
\* construction error is stored, so FinalizeInit without cancellation fails.
C5_ParseFailureStored ==
  (InitWithoutCancel /\ probe.parse \in {"error", "pipeline_and_error"}) =>
    /\ construct_error /= NoError
    /\ ~result.ok

\* A step of g_initable_init.
InitStep == calls' = calls + 1 /\ result'.op = "init"

\* What the handle holds from the probe is the same after the step.
ProbeStateKept ==
  /\ construct_error' = construct_error
  /\ caps' = caps
  /\ formats' = formats
  /\ probes' = probes
  /\ derivations' = derivations

\* C6: FinalizeInit with a cancellation request fails with kind
\* not-supported in every handle state, never with the stored probing error,
\* and leaves the stored error unchanged.
C6_CancellationNotSupported ==
  [][ (InitStep /\ result'.cancellable) =>
        /\ ~result'.ok
        /\ result'.error =
             (IF result'.error_loc
              THEN [code |-> "NOT_SUPPORTED",
                    message |-> << "Cancellable initialization not supported" >>]
              ELSE NoError)
        /\ result'.error.code \notin {"UNSUPPORTED_CAPS", "FAILED_INITIALIZATION"}
        /\ construct_error' = construct_error ]_vars

\* C6 witness: a cancellable passed to a handle that holds a probing error.
C6_Witness ==
  /\ result.op = "init"
  /\ result.cancellable
  /\ result.error_loc
  /\ construct_error.code = "FAILED_INITIALIZATION"
  /\ result.error.code = "NOT_SUPPORTED"

\* C7: every FinalizeInit without cancellation fails with a copy of the
\* stored construction error if there is one and succeeds otherwise; no call
\* probes again or changes the stored error, the stored caps or the format
\* list; the probe has run exactly once on every constructed handle.
C7_FinalizeReplaysStoredError ==
  [][ /\ (pc' /= "new") => (probes' = 1)
      /\ (InitStep /\ ~result'.cancellable) =>
           /\ ProbeStateKept
           /\ result'.ok = (construct_error = NoError)
           /\ result'.error =
                (IF result'.error_loc THEN construct_error ELSE NoError) ]_vars

\* C7 witness: the second call on a handle with a stored error returns it.
C7_Witness ==
  /\ calls = 2
  /\ result.op = "init"
  /\ ~result.cancellable
  /\ ~result.ok
  /\ construct_error.code = "UNSUPPORTED_CAPS"
  /\ result.error = construct_error
  /\ probes = 1

\* C8: the source is v4l2src exactly for API version 2 and v4lsrc exactly
\* for version 1, and no probe runs for a version outside {1, 2}.
C8_SourceByVersion ==
  (pc /= "new") =>
    /\ (src = "v4l2src") <=> (requested_version = 2)
    /\ (src = "v4lsrc") <=> (requested_version = 1)
    /\ (requested_version \notin {1, 2}) => (probes = 0)

\* The exact area width * height of a format with positive sides, as four
\* 16-bit limbs, most significant first.
ExactArea(f) ==
  LET w == Halves(f.width)
      h == Halves(f.height)
      p00 == Mul16(w[2], h[2])
      p01 == Mul16(w[2], h[1])
      p10 == Mul16(w[1], h[2])
      p11 == Mul16(w[1], h[1])
      s1 == p00[1] + p01[2] + p10[2]
      s2 == p01[1] + p10[1] + p11[2] + (s1 \div TwoPow16)
  IN << p11[1] + (s2 \div TwoPow16), s2 % TwoPow16, s1 % TwoPow16, p00[2] >>

\* a >= b for two numbers given by their limbs.
LimbsGE(a, b) ==
  \/ a[1] > b[1]
  \/ a[1] = b[1] /\ a[2] > b[2]
  \/ a[1] = b[1] /\ a[2] = b[2] /\ a[3] > b[3]
  \/ a[1] = b[1] /\ a[2] = b[2] /\ a[3] = b[3] /\ a[4] >= b[4]

AllPositive(list) ==
  \A i \in 1..Len(list) : list[i].width > 0 /\ list[i].height > 0

\* How often format f occurs in a list.
Occurrences(list, f) == Cardinality({i \in 1..Len(list) : list[i] = f})

IsPermutation(a, b) ==
  /\ Len(a) = Len(b)
  /\ \A i \in 1..Len(b) : Occurrences(a, b[i]) = Occurrences(b, b[i])

\* C9: for a format list with positive sides, the list GetFormats returns
\* is a permutation of it ordered by descending area width * height.
C9_SortedByArea ==
  (ValidVersion /\ result.op = "get_format_list" /\ result.ok
     /\ AllPositive(formats)) =>
    /\ IsPermutation(result.list, formats)
    /\ \A i \in 1..Len(result.list) : \A j \in 1..Len(result.list) :
         (i < j) => LimbsGE(ExactArea(result.list[i]), ExactArea(result.list[j]))

\* C10: the format list never holds two entries with equal width and equal
\* height, and adding an entry it already holds leaves it unchanged.
C10_NoDuplicateFormats ==
  /\ \A i \in 1..Len(formats) : \A j \in 1..Len(formats) :
       (formats[i].width = formats[j].width
          /\ formats[i].height = formats[j].height) => (i = j)
  /\ \A i \in 1..Len(formats) :
       cheese_camera_device_add_format(formats, formats[i]) = formats

\* C10 witness: two structures of the same fixed size and a ranged one that
\* covers it gave one entry for that size.
C10_Witness ==
  /\ pc = "constructed"
  /\ Len(caps) = 2
  /\ caps[1].width = IntValue(640) /\ caps[1].height = IntValue(480)
  /\ caps[2].width = RangeValue(160, 640) /\ caps[2].height = RangeValue(120, 480)
  /\ Len(formats) = 3

\* The handle was constructed with a valid API version and holds no
\* construction error, and its format list is not empty.
ConstructedWithFormats ==
  /\ ValidVersion
  /\ pc /= "new"
  /\ construct_error = NoError
  /\ formats /= <<>>

\* C11: on a successfully constructed handle GetBestFormat returns a format
\* equal to the first element of GetFormats, and no element of the format
\* list has strictly greater area than it.
C11_BestIsFirstAndLargest ==
  (ConstructedWithFormats /\ result.op = "get_best_format") =>
    /\ result.ok
    /\ result.format = cheese_camera_device_get_format_list(formats).list[1]
    /\ \A i \in 1..Len(formats) :
         LimbsGE(ExactArea(result.format), ExactArea(formats[i]))

\* The pairs (w * 2^k, h * 2^k), k >= 0, as long as every pair so far has
\* its width within max_width and its height within max_height.  A side
\* above I32Max \div 2 doubles to more than any bound.
RECURSIVE DoublingSet(_, _, _, _)
DoublingSet(w, h, max_width, max_height) ==
  IF w > max_width \/ h > max_height THEN {}
  ELSE {CheeseVideoFormat(w, h)} \cup
       (IF (w = 0 /\ h = 0) \/ w > I32Max \div 2 \/ h > I32Max \div 2
        THEN {}
        ELSE DoublingSet(2 * w, 2 * h, max_width, max_height))

\* The pairs (w div 2^k, h div 2^k), k >= 0, as long as every pair so far
\* has its width above min_width and its height above min_height.
RECURSIVE HalvingSet(_, _, _, _)
HalvingSet(w, h, min_width, min_height) ==
  IF ~(w > min_width /\ h > min_height) THEN {}
  ELSE {CheeseVideoFormat(w, h)} \cup
       HalvingSet(w \div 2, h \div 2, min_width, min_height)

\* The candidates of one ranged structure.
RangeCandidates(s) ==
  DoublingSet(s.width.min, s.height.min, s.width.max, s.height.max)
    \cup HalvingSet(s.width.max, s.height.max, s.width.min, s.height.min)

\* The format table was derived from one ranged structure.
RangeDerived == pc \notin {"new", "probing"} /\ derivations = 1 /\ Len(caps) = 1

\* C12: for a single ranged description the candidates added, once the
\* derivation has returned, are exactly the doubling set from the minimum
\* together with the halving set from the maximum.
C12_RangeCandidates ==
  (RangeDerived /\ pc = "derived") =>
    {formats[i] : i \in 1..Len(formats)} = RangeCandidates(caps[1])

\* C13: the derivation ends for every ranged description with
\* 0 <= min <= max in both dimensions.
C13_DerivationTerminates ==
  RangeDerived => (pc = "derived")

\* Whether a field value admits the integer x.
Admits(v, x) ==
  CASE v.type = "absent" -> TRUE
    [] v.type = "int" -> x = v.min
    [] v.type = "int_range" -> v.min <= x /\ x <= v.max
    [] v.type = "list" -> x \in {v.min, v.max}
    [] OTHER -> FALSE

\* A stored structure permits format f in an allowed encoding family.
PermitsFormat(s, f) ==
  /\ s.name \in {"video/x-raw-rgb", "video/x-raw-yuv"}
  /\ Admits(s.width, f.width)
  /\ Admits(s.height, f.height)

\* The structure s of the stored caps, narrowed to the size of f.
NarrowedTo(s, f) ==
  Structure(s.name, s.framerate, IntValue(f.width), IntValue(f.height))

\* got is the stored caps restricted to the allowed families at the size
\* of f: each of its structures is a stored structure that permits f,
\* narrowed to f, and every stored structure that permits f is in it.
IsRestrictionTo(got, stored, f) ==
  /\ \A i \in 1..Len(got) :
       \E j \in 1..Len(stored) :
         PermitsFormat(stored[j], f) /\ got[i] = NarrowedTo(stored[j], f)
  /\ \A j \in 1..Len(stored) :
       PermitsFormat(stored[j], f) =>
         \E i \in 1..Len(got) : got[i] = NarrowedTo(stored[j], f)

\* A step of cheese_camera_device_get_caps_for_format.
CapsForFormatStep ==
  calls' = calls + 1 /\ result'.op = "get_caps_for_format"

\* C14: GetCapsForFormat returns exactly the stored caps restricted to the
\* allowed encoding families at the width and height of the format asked
\* for, and leaves the stored caps unchanged.
C14_CapsForFormatExact ==
  [][ CapsForFormatStep =>
        /\ caps' = caps
        /\ IsRestrictionTo(result'.caps, caps, result'.asked) ]_vars

\* C14 witness: of a fixed 640x480 structure and a ranged one, only the
\* ranged one permits 320x240, and it comes back narrowed to that size.
C14_Witness ==
  /\ result.op = "get_caps_for_format"
  /\ result.asked = CheeseVideoFormat(320, 240)
  /\ Len(caps) = 2
  /\ caps[1].width = IntValue(640)
  /\ caps[2].width = RangeValue(160, 640)
  /\ result.caps = << NarrowedTo(caps[2], result.asked) >>

\* C15: on a successfully constructed handle GetCapsForFormat is non-empty
\* for every format of the handle's list.
C15_FormatsCanBeRequested ==
  (/\ ValidVersion
   /\ construct_error = NoError
   /\ result.op = "get_caps_for_format"
   /\ \E i \in 1..Len(formats) : formats[i] = result.asked) =>
    ~gst_caps_is_empty(result.caps)

====
